---- MODULE Spec2Model ----
(***************************************************************************)
(* Model of the boss key space (bosscore/lookup.py: LookUpKey) and of the  *)
(* cutout payload decoders (bossspatialdb/parsers.py).                     *)
(*                                                                         *)
(* Strings are TLA+ strings, concatenated as the code concatenates them.   *)
(* The lookup table is a bag of rows: a database table whose rows carry an *)
(* auto-assigned primary key, so that two rows may hold the same values.   *)
(***************************************************************************)
EXTENDS Bags, FiniteSets, Integers, Sequences, TLC

\* ------------------------------------------------------------------------
\* Bounds
\* ------------------------------------------------------------------------

\* largest max_time_sample passed to add_lookup
MaxTime == 2

\* largest number of rows the lookup table holds
MaxRows == 6

\* settings.CUTOUT_MAX_SIZE, the ceiling on the uncompressed bytes of a
\* cutout, scaled down to the spans below
CUTOUT_MAX_SIZE == 8

\* largest span of a request along x, y and z
MaxSpan == 2

\* largest span of a request along time
MaxTSpan == 2

\* largest number of bytes a payload decompresses to
MaxRawLen == 8

\* largest number of channels of the data model
MaxChannels == 2

\* largest number of rows the lookup table of the data model holds
MaxDataRows == 7

\* largest number of add_lookup calls of the concurrent callers, in all;
\* beyond it a caller only repeats its last call when its base row is there
MaxCalls == 2

\* ------------------------------------------------------------------------
\* Values
\* ------------------------------------------------------------------------

\* Python None where a string is expected (experiment_name=None, ...)
NoneStr == "None"

\* Python None where an integer is expected (max_time_sample=None)
NoneInt == -1

\* lookup keys handed to add_lookup (primary keys joined by '&')
LookupKeys == {"1", "2"}

\* boss keys handed to add_lookup and get_lookup_key (names joined by '&');
\* col1 and col1-22 are the collections of the test data, exp1 an
\* experiment of col1 and channel1 a channel of exp1
BossKeys == {"col1", "col1-22", "col1&exp1", "col1&exp1&channel1"}

\* boss keys of the time samples of the channel
TimeBossKeys == {"col1&exp1&channel1&0", "col1&exp1&channel1&1"}

\* collection name of a boss key (add_lookup's collection_name argument)
CollectionOf(bkey) == IF bkey = "col1-22" THEN "col1-22" ELSE "col1"

\* experiment name of a boss key, None for a collection
ExperimentOf(bkey) ==
    IF bkey \in {"col1&exp1", "col1&exp1&channel1"} THEN "exp1" ELSE NoneStr

\* channel name of a boss key, None for a collection
ChannelOf(bkey) == IF bkey = "col1&exp1&channel1" THEN "channel1" ELSE NoneStr

VARIABLES
    store,      \* the lookup table (BossLookup.objects): a bag of rows
    call,       \* the last call of the key space: its arguments, and the table before it
    result,     \* what the last call returned or raised
    pinned      \* history: the <<lookup_key, boss_key>> pairs written to a table
                \* that held no row for the boss key, and not targeted since

lookupVars == <<store, call, result, pinned>>

VARIABLES
    parser,       \* the decoder whose parse() ran last
    env,          \* what that call was given: the request and the outcome of
                  \* each call parse() makes outside this module
    stream,       \* the request body: "unread", "read" or "broken"
    decompressed, \* whether the decompression step was invoked
    parsed        \* what parse() returned or raised

parseVars == <<parser, env, stream, decompressed, parsed>>

VARIABLES
    table,      \* the DynamoDB table of MetaDB: the metavalue of each metakey
    mcall,      \* the last call of MetaDB: its arguments, and the table before it
    mresult,    \* what the last call of MetaDB returned
    last        \* history: the value last written or updated under each key,
                \* NoValue when the key was deleted since or never written

metaVars == <<table, mcall, mresult, last>>

VARIABLES
    collections,  \* Collection.objects: the name of each collection, by pk
    experiments,  \* Experiment.objects: name and collection of each experiment, by pk
    channels,     \* Channel.objects: name, experiment, type and sources of each channel, by pk
    dcall,        \* the last call on the data model: its arguments, and the
                  \* channels and the lookup table before it
    dresult       \* what that call returned or raised

dataVars == <<collections, experiments, channels, dcall, dresult>>

VARIABLES
    writers     \* the position of each concurrent caller of add_lookup: its
                \* arguments, its lookup_data, its time sample, and history:
                \* the time rows its current call saved

writerVars == <<writers>>

vars == <<store, call, result, pinned, parser, env, stream, decompressed, parsed, table, mcall, mresult, last, collections, experiments, channels, dcall, dresult, writers>>

\* ------------------------------------------------------------------------
\* bosscore/lookup.py
\* ------------------------------------------------------------------------

\* truth value of a Python string or None
TruthyStr(s) == s # NoneStr /\ s # ""

\* truth value of a Python int or None
TruthyInt(n) == n # NoneInt /\ n # 0

\* range(n) as a sequence
range(n) == [i \in 1..n |-> i - 1]

\* rows of the table whose boss_key is bkey
RowsOf(tbl, bkey) == {r \in BagToSet(tbl) : r.boss_key = bkey}

\* number of rows of the table whose boss_key is bkey
CountOf(tbl, bkey) == BagCardinality([r \in RowsOf(tbl, bkey) |-> tbl[r]])

\* serializer.is_valid(): the table rejects a second row for the same
\* (lookup_key, boss_key) pair
is_valid(tbl, data) ==
    \A r \in BagToSet(tbl) :
        ~(r.lookup_key = data.lookup_key /\ r.boss_key = data.boss_key)

\* serializer.save(): one more row
save(tbl, data) == tbl (+) SetToBag({data})

\* time_loop with the time sample left off the boss key
RECURSIVE time_loop_same_boss_key(_, _, _, _, _)
time_loop_same_boss_key(tbl, lookup_data, lookup_key, boss_key, times) ==
    IF times = <<>> THEN tbl
    ELSE LET time == Head(times)
             data == [lookup_data EXCEPT
                         !.lookup_key = lookup_key \o "&" \o ToString(time),
                         !.boss_key = boss_key]
             tbl2 == IF is_valid(tbl, data) THEN save(tbl, data) ELSE tbl
         IN  time_loop_same_boss_key(tbl2, data, lookup_key, boss_key, Tail(times))

\* the loop over the time samples
RECURSIVE time_loop(_, _, _, _, _)
time_loop(tbl, lookup_data, lookup_key, boss_key, times) ==
    IF times = <<>> THEN tbl
    ELSE LET time == Head(times)
             data == [lookup_data EXCEPT
                         !.lookup_key = lookup_key \o "&" \o ToString(time),
                         !.boss_key = boss_key \o "&" \o ToString(time)]
             tbl2 == IF is_valid(tbl, data) THEN save(tbl, data) ELSE tbl
         IN  time_loop(tbl2, data, lookup_key, boss_key, Tail(times))

\* expands with the channel name left out of the guard
expands_without_channel(collection_name, experiment_name, channel_layer_name, max_time_sample) ==
    /\ TruthyStr(collection_name)
    /\ TruthyStr(experiment_name)
    /\ TruthyInt(max_time_sample)

\* the guard of the time sample expansion
expands(collection_name, experiment_name, channel_layer_name, max_time_sample) ==
    /\ TruthyStr(collection_name)
    /\ TruthyStr(experiment_name)
    /\ TruthyStr(channel_layer_name)
    /\ TruthyInt(max_time_sample)

\* LookUpKey.add_lookup: the table after the call
add_lookup(tbl, lookup_key, boss_key, collection_name, experiment_name, channel_layer_name, max_time_sample) ==
    LET lookup_data == [lookup_key |-> lookup_key, boss_key |-> boss_key,
                        collection_name |-> collection_name,
                        experiment_name |-> experiment_name,
                        channel_layer_name |-> channel_layer_name]
    IN  IF is_valid(tbl, lookup_data)
        THEN LET tbl1 == save(tbl, lookup_data)
             IN  IF expands(collection_name, experiment_name,
                            channel_layer_name, max_time_sample)
                 THEN time_loop(tbl1, lookup_data, lookup_key, boss_key,
                                range(max_time_sample + 1))
                 ELSE tbl1
        ELSE tbl

\* the endings a stored boss key can have after a shorter boss key
KeySuffixes == {"", "-22", "&exp1&channel1", "&0", "&1", "&2", "&3"}

\* get_lookup_key matching the rows whose boss_key starts with bkey
get_lookup_key_startswith(tbl, bkey) ==
    LET rows == {r \in BagToSet(tbl) :
                    \E sfx \in KeySuffixes : r.boss_key = bkey \o sfx}
    IN  IF rows = {} THEN [kind |-> "DoesNotExist"]
        ELSE IF BagCardinality([r \in rows |-> tbl[r]]) > 1
             THEN [kind |-> "MultipleObjectsReturned"]
        ELSE [kind |-> "row", row |-> CHOOSE r \in rows : TRUE]

\* LookUpKey.get_lookup_key: BossLookup.objects.get(boss_key=bkey)
get_lookup_key(tbl, bkey) ==
    IF CountOf(tbl, bkey) = 0 THEN [kind |-> "DoesNotExist"]
    ELSE IF CountOf(tbl, bkey) > 1 THEN [kind |-> "MultipleObjectsReturned"]
    ELSE [kind |-> "row", row |-> CHOOSE r \in RowsOf(tbl, bkey) : TRUE]

\* the boss keys a call of add_lookup is meant to write: the base key and,
\* for a channel with a max_time_sample, one key per time sample
Targets(boss_key, experiment_name, channel_layer_name, max_time_sample) ==
    {boss_key} \cup
    IF TruthyStr(experiment_name) /\ TruthyStr(channel_layer_name)
       /\ max_time_sample # NoneInt
    THEN {boss_key \o "&" \o ToString(t) : t \in 0..max_time_sample}
    ELSE {}

NoCall ==
    [op |-> "none", lookup_key |-> "", boss_key |-> "",
     experiment_name |-> NoneStr, channel_layer_name |-> NoneStr,
     max_time_sample |-> NoneInt, before |-> EmptyBag]

LookupInit ==
    /\ store = EmptyBag
    /\ call = NoCall
    /\ result = [kind |-> "none"]
    /\ pinned = {}

\* a caller adds the lookup keys of a collection or a channel
AddLookup ==
    \E lookup_key \in LookupKeys, boss_key \in BossKeys,
       max_time_sample \in {NoneInt} \cup (0..MaxTime) :
        LET collection_name == CollectionOf(boss_key)
            experiment_name == ExperimentOf(boss_key)
            channel_layer_name == ChannelOf(boss_key)
            targets == Targets(boss_key, experiment_name, channel_layer_name,
                               max_time_sample)
        IN  /\ BagCardinality(add_lookup(store, lookup_key, boss_key,
                    collection_name, experiment_name, channel_layer_name,
                    max_time_sample)) <= MaxRows
            /\ store' = add_lookup(store, lookup_key, boss_key, collection_name,
                                   experiment_name, channel_layer_name,
                                   max_time_sample)
            /\ call' = [op |-> "add_lookup", lookup_key |-> lookup_key,
                        boss_key |-> boss_key,
                        experiment_name |-> experiment_name,
                        channel_layer_name |-> channel_layer_name,
                        max_time_sample |-> max_time_sample,
                        before |-> store]
            \* add_lookup has no return statement and raises nothing
            /\ result' = [kind |-> "None"]
            /\ pinned' = {p \in pinned : p[2] \notin targets}
                         \cup IF CountOf(store, boss_key) = 0
                              THEN {<<lookup_key, boss_key>>} ELSE {}
            /\ UNCHANGED <<parseVars, metaVars, dataVars, writerVars>>

\* a caller resolves a boss key
GetLookupKey ==
    \E bkey \in BossKeys \cup TimeBossKeys :
        /\ call' = [NoCall EXCEPT !.op = "get_lookup_key", !.boss_key = bkey,
                                  !.before = store]
        /\ result' = get_lookup_key(store, bkey)
        /\ UNCHANGED <<store, pinned>>
        /\ UNCHANGED <<parseVars, metaVars, dataVars, writerVars>>

\* ------------------------------------------------------------------------
\* Properties of the key space
\* ------------------------------------------------------------------------

\* the last call was add_lookup
IsAdd == call.op = "add_lookup"

\* the table held a row for the pair of the last call before the call
HadPair ==
    \E r \in BagToSet(call.before) :
        r.lookup_key = call.lookup_key /\ r.boss_key = call.boss_key

\* the last call named an experiment and a channel and gave a max_time_sample
IsTimeSeriesCall ==
    /\ IsAdd
    /\ call.experiment_name # NoneStr
    /\ call.channel_layer_name # NoneStr
    /\ call.max_time_sample # NoneInt

\* get_lookup_key(bkey) returns a row whose lookup_key is lkey
Resolves(bkey, lkey) ==
    LET r == get_lookup_key(store, bkey)
    IN  r.kind = "row" /\ r.row.lookup_key = lkey

\* the rows the last call added to the table
Added == store (-) call.before

C2_DuplicateReported ==
    (IsAdd /\ HadPair) => (result.kind = "DuplicateKey" /\ store = call.before)

\* C3 as stated: for every N >= 0, add_lookup with collection, experiment
\* and channel names and max_time_sample = N writes the base row and exactly
\* N+1 time sample rows, one for each t in 0..N.
C3_WritesAllTimeSamples ==
    (IsTimeSeriesCall /\ ~HadPair) =>
        /\ BagCardinality(Added) = call.max_time_sample + 2
        /\ \A t \in 0..call.max_time_sample :
              \E r \in BagToSet(Added) :
                  /\ r.boss_key = call.boss_key \o "&" \o ToString(t)
                  /\ r.lookup_key = call.lookup_key \o "&" \o ToString(t)

\* C4 as stated: after a successful add_lookup(lookupKey, bossKey, ...,
\* max_time_sample = N) for a channel, get_lookup_key(bossKey & t) returns
\* the row whose lookup_key is lookupKey & t, for every t in 0..N.
C4_EveryTimeSampleResolves ==
    (IsTimeSeriesCall /\ ~HadPair) =>
        \A t \in 0..call.max_time_sample :
            Resolves(call.boss_key \o "&" \o ToString(t),
                     call.lookup_key \o "&" \o ToString(t))

\* the base row of the last call
BaseRow ==
    [lookup_key |-> call.lookup_key, boss_key |-> call.boss_key,
     collection_name |-> CollectionOf(call.boss_key),
     experiment_name |-> call.experiment_name,
     channel_layer_name |-> call.channel_layer_name]

\* C22: add_lookup adds rows of time samples only when the experiment
\* name, the channel name and max_time_sample are all supplied; when one
\* of them is absent a call whose base row is accepted adds exactly one
\* row, the base row.
C22_TimeRowsOnlyWhenAllSupplied ==
    IsAdd =>
        /\ (\E r \in BagToSet(Added) : r # BaseRow) => IsTimeSeriesCall
        /\ (~IsTimeSeriesCall /\ ~HadPair) => Added = SetToBag({BaseRow})

\* C22 witness: an experiment gets its base row and nothing else, with a
\* max_time_sample supplied and no channel name
C22_Witness ==
    /\ IsAdd
    /\ ~HadPair
    /\ call.experiment_name = "exp1"
    /\ call.channel_layer_name = NoneStr
    /\ call.max_time_sample = MaxTime
    /\ Added = SetToBag({BaseRow})

\* C5: get_lookup_key(bossKey) returns a row only if that row is in the
\* table with boss_key equal to the whole argument, and fails with
\* DoesNotExist when the table holds no such row, also when it holds a row
\* whose boss_key is a prefix or an extension of the argument.
C5_ExactMatch ==
    call.op = "get_lookup_key" =>
        /\ result.kind = "row" =>
              (result.row.boss_key = call.boss_key /\ BagIn(result.row, store))
        /\ (\A r \in BagToSet(store) : r.boss_key # call.boss_key) =>
              result.kind = "DoesNotExist"

\* C5 witness: col1 does not resolve while only col1-22 is stored
C5_Witness ==
    /\ call.op = "get_lookup_key"
    /\ call.boss_key = "col1"
    /\ \E r \in BagToSet(store) : r.boss_key = "col1-22"
    /\ \A r \in BagToSet(store) : r.boss_key # "col1"
    /\ result.kind = "DoesNotExist"


\* ------------------------------------------------------------------------
\* bossspatialdb/parsers.py
\* ------------------------------------------------------------------------

\* the product of the numbers of a sequence
RECURSIVE Product(_)
Product(dims) == IF dims = <<>> THEN 1 ELSE Head(dims) * Product(Tail(dims))

\* is_too_large with the ceiling itself refused
is_too_large_at_limit(request_obj, bit_depth) ==
    LET t_span == request_obj.t_stop - request_obj.t_start
        num == request_obj.x_span * request_obj.y_span * request_obj.z_span
               * t_span * bit_depth
        den == IF bit_depth = 64 THEN 8 * 4 ELSE 8
    IN  num >= CUTOUT_MAX_SIZE * den

\* is_too_large with the time span left out of the volume
is_too_large_without_time(request_obj, bit_depth) ==
    LET num == request_obj.x_span * request_obj.y_span * request_obj.z_span
               * bit_depth
        den == IF bit_depth = 64 THEN 8 * 4 ELSE 8
    IN  num > CUTOUT_MAX_SIZE * den

\* is_too_large: total_bytes is the fraction num / den, as Python's true
\* division computes it
is_too_large(request_obj, bit_depth) ==
    LET t_span == request_obj.t_stop - request_obj.t_start
        num == request_obj.x_span * request_obj.y_span * request_obj.z_span
               * t_span * bit_depth
        den == IF bit_depth = 64 THEN 8 * 4 ELSE 8
    IN  num > CUTOUT_MAX_SIZE * den

\* BossParserError(message, error_code), returned by parse()
BossParserError(message, error_code) ==
    [kind |-> "error", message |-> message, error_code |-> error_code]

\* the value parse() returns on success: (req, resource, parsed_data); the
\* array is kept as its shape
Parsed(shape) == [kind |-> "array", shape |-> shape]

\* an exception leaving parse()
Raised(exc) == [kind |-> "raised", exc |-> exc]

\* what parse() leaves behind: the body, whether the decompression step ran,
\* and the value returned
Outcome(strm, decomp, ret) == [stream |-> strm, decompressed |-> decomp, ret |-> ret]

\* the body after stream.read()
AfterRead(e) == IF e.read = "ok" THEN "read" ELSE "broken"

\* ConsumeReqMixin.consume_request: read the body, swallow what read() raises
consume_request(e) == AfterRead(e)

\* request_failure reporting every failure as an unhandled exception
request_failure_generic(e) ==
    Outcome(IF e.read = "ok" THEN "read" ELSE "broken", FALSE,
            BossParserError("str(err)", "UNHANDLED_EXCEPTION"))

\* the except clauses around the construction of the BossRequest
request_failure(e) ==
    IF e.request = "BossError"
    THEN Outcome(consume_request(e), FALSE,
                 BossParserError(e.err.message, e.err.error_code))
    ELSE Outcome(consume_request(e), FALSE,
                 BossParserError("str(err)", "UNHANDLED_EXCEPTION"))

TypeError == BossParserError("Unsupported data type provided to parser", "TYPE_ERROR")

TooLarge == BossParserError("Cutout request is over 500MB when uncompressed", "REQUEST_TOO_LARGE")

OutOfMemory == BossParserError("Ran out of memory decompressing data", "BOSS_SYSTEM_ERROR")

DecompressFailed == BossParserError("Failed to decompress data", "DATATYPE_DOES_NOT_MATCH")

UnpackFailed == BossParserError("Failed to unpack data", "DATA_DIMENSION_MISMATCH")

\* len(req.get_time())
TimeLen(req) == req.t_stop - req.t_start

\* target_shape without the time axis
target_shape_3d(req) == <<req.z_span, req.y_span, req.x_span>>

\* the shape BloscParser reshapes to
target_shape(req) ==
    IF req.time_request
    THEN <<TimeLen(req), req.z_span, req.y_span, req.x_span>>
    ELSE <<req.z_span, req.y_span, req.x_span>>

\* np.reshape of a flat array of size elements with a size check that lets
\* a longer array through
reshape_truncating(size, shape) ==
    IF size < Product(shape) THEN "ValueError" ELSE shape

\* np.reshape of a flat array of size elements: ValueError unless the shape
\* holds exactly size elements
reshape(size, shape) ==
    IF size # Product(shape) THEN "ValueError" ELSE shape

\* BloscParser.parse from the decompression on
blosc_decode(e) ==
    IF e.read # "ok" THEN Outcome(AfterRead(e), FALSE, DecompressFailed)
    ELSE IF e.decompress = "MemoryError" THEN Outcome("read", TRUE, OutOfMemory)
    ELSE IF e.decompress # "ok" THEN Outcome("read", TRUE, DecompressFailed)
    \* np.fromstring: the bytes must be a whole number of elements
    ELSE IF e.raw_len % (e.bit_depth \div 8) # 0
         THEN Outcome("read", TRUE, DecompressFailed)
    ELSE LET size == e.raw_len \div (e.bit_depth \div 8)
             parsed_data == reshape(size, target_shape(e.req))
         IN  IF parsed_data = "ValueError"
             THEN Outcome("read", TRUE, UnpackFailed)
             ELSE Outcome("read", TRUE, Parsed(parsed_data))

\* BloscParser.parse
BloscParser_parse(e) ==
    IF e.request # "ok" THEN request_failure(e)
    ELSE IF e.resource # "ok" THEN Outcome("unread", FALSE, Raised(e.resource))
    ELSE IF e.bit_depth = 0 THEN Outcome("unread", FALSE, TypeError)
    ELSE IF is_too_large(e.req, e.bit_depth) THEN Outcome("unread", FALSE, TooLarge)
    ELSE blosc_decode(e)

\* blosc.unpack_array or zlib.decompress and np.load: the array is the one
\* the payload describes
self_describing_decode(e) ==
    IF e.read # "ok" THEN Outcome(AfterRead(e), FALSE, Raised("IOError"))
    ELSE IF e.decompress = "MemoryError" THEN Outcome("read", TRUE, OutOfMemory)
    ELSE IF e.decompress = "EOFError" THEN Outcome("read", TRUE, UnpackFailed)
    ELSE IF e.decompress # "ok" THEN Outcome("read", TRUE, Raised(e.decompress))
    ELSE Outcome("read", TRUE, Parsed(e.shape))

\* BloscPythonParser.parse
BloscPythonParser_parse(e) ==
    IF e.request # "ok" THEN request_failure(e)
    ELSE IF e.resource # "ok" THEN Outcome("unread", FALSE, Raised(e.resource))
    ELSE IF e.bit_depth = 0 THEN Outcome(consume_request(e), FALSE, TypeError)
    ELSE IF is_too_large(e.req, e.bit_depth)
         THEN Outcome(consume_request(e), FALSE, TooLarge)
    ELSE self_describing_decode(e)

\* NpygzParser.parse
NpygzParser_parse(e) ==
    IF e.request # "ok" THEN request_failure(e)
    ELSE IF e.resource # "ok" THEN Outcome("unread", FALSE, Raised(e.resource))
    ELSE IF e.bit_depth = 0 THEN Outcome(consume_request(e), FALSE, TypeError)
    ELSE IF is_too_large(e.req, e.bit_depth)
         THEN Outcome(consume_request(e), FALSE, TooLarge)
    ELSE self_describing_decode(e)

\* the validated requests: spans of at least one voxel, and a time range of
\* one sample when the request gave none
Requests ==
    {r \in [x_span : 1..MaxSpan, y_span : 1..MaxSpan, z_span : 1..MaxSpan,
            t_start : {0}, t_stop : 1..MaxTSpan, time_request : BOOLEAN] :
        ~r.time_request => r.t_stop = r.t_start + 1}

\* the BossError a failed validation raises
BossErrors ==
    {[message |-> "Invalid cutout range", error_code |-> "INVALID_CUTOUT_ARGS"],
     [message |-> "Channel not found", error_code |-> "RESOURCE_NOT_FOUND"]}

\* resource.get_bit_depth(): 8, 16 or 64, or 0 for the ValueError of an
\* unsupported data type
BitDepths == {0, 8, 16, 64}

\* the shapes a self describing payload can carry
Shapes == {<<1, 1, 1>>, <<MaxSpan, 1, 1>>, <<1, 1, 1, 1>>, <<1, MaxSpan, 1, 1>>}

\* stream.read(): the body, or an error of the transport
ReadOutcomes == {"ok", "IOError"}

\* a call of parse() in which the BossRequest is refused with an exception
\* that is no BossError; the fields parse() does not reach keep these values
NoEnv ==
    [request |-> "Exception",
     err |-> [message |-> "", error_code |-> ""],
     req |-> [x_span |-> 1, y_span |-> 1, z_span |-> 1,
              t_start |-> 0, t_stop |-> 1, time_request |-> FALSE],
     resource |-> "ok", bit_depth |-> 8, read |-> "ok",
     decompress |-> "ok", raw_len |-> 0, shape |-> <<1, 1, 1>>]

\* the calls in which the BossRequest is refused
FailedRequests ==
    {[NoEnv EXCEPT !.request = "BossError", !.err = x, !.read = rd] :
        x \in BossErrors, rd \in ReadOutcomes}
    \cup {[NoEnv EXCEPT !.read = rd] : rd \in ReadOutcomes}

\* the calls in which the BossRequest is refused while the channel's data
\* type is unsupported or the payload is corrupt
FailedRequestsBadPayload ==
    {[e EXCEPT !.bit_depth = b, !.decompress = d] :
        e \in FailedRequests, b \in {0, 8}, d \in {"ok", "error"}}

\* the calls in which the BossRequest is built
OkRequests == {[NoEnv EXCEPT !.request = "ok", !.req = r] : r \in Requests}

\* the calls in which spdb.project.BossResourceDjango(req) raises
FailedResources == {[e EXCEPT !.resource = "Exception"] : e \in OkRequests}

\* the calls that reach resource.get_bit_depth()
WithDepth ==
    {[e EXCEPT !.bit_depth = b, !.read = rd] :
        e \in OkRequests, b \in BitDepths, rd \in ReadOutcomes}

\* the calls that can reach the decompression step
Decodable == {e \in WithDepth : e.bit_depth # 0 /\ e.read = "ok"}

\* the calls of BloscParser.parse: blosc.decompress gives raw_len bytes, or
\* raises MemoryError or a blosc error
BloscEnvs ==
    FailedRequestsBadPayload \cup FailedResources \cup WithDepth
    \cup {[e EXCEPT !.decompress = d] :
            e \in Decodable, d \in {"MemoryError", "error"}}
    \cup {[e EXCEPT !.raw_len = n] : e \in Decodable, n \in 0..MaxRawLen}

\* the calls of BloscPythonParser.parse and NpygzParser.parse: the payload
\* unpacks to an array of some shape, or raises MemoryError, EOFError or an
\* error of the codec
SelfDescribingEnvs ==
    FailedRequestsBadPayload \cup FailedResources \cup WithDepth
    \cup {[e EXCEPT !.decompress = d] :
            e \in Decodable, d \in {"MemoryError", "EOFError", "error"}}
    \cup {[e EXCEPT !.shape = sh] : e \in Decodable, sh \in Shapes}

ParseInit ==
    /\ parser = "none"
    /\ env = NoEnv
    /\ stream = "unread"
    /\ decompressed = FALSE
    /\ parsed = [kind |-> "none"]

\* a POST of application/blosc; each request is parsed once, by one decoder,
\* and shares nothing with another request
BloscParse ==
    \E e \in BloscEnvs :
        LET o == BloscParser_parse(e)
        IN  /\ parser = "none"
            /\ parser' = "BloscParser"
            /\ env' = e
            /\ stream' = o.stream
            /\ decompressed' = o.decompressed
            /\ parsed' = o.ret
            /\ UNCHANGED <<lookupVars, metaVars, dataVars, writerVars>>

\* a POST of application/blosc-python
BloscPythonParse ==
    \E e \in SelfDescribingEnvs :
        LET o == BloscPythonParser_parse(e)
        IN  /\ parser = "none"
            /\ parser' = "BloscPythonParser"
            /\ env' = e
            /\ stream' = o.stream
            /\ decompressed' = o.decompressed
            /\ parsed' = o.ret
            /\ UNCHANGED <<lookupVars, metaVars, dataVars, writerVars>>

\* a POST of application/npygz
NpygzParse ==
    \E e \in SelfDescribingEnvs :
        LET o == NpygzParser_parse(e)
        IN  /\ parser = "none"
            /\ parser' = "NpygzParser"
            /\ env' = e
            /\ stream' = o.stream
            /\ decompressed' = o.decompressed
            /\ parsed' = o.ret
            /\ UNCHANGED <<lookupVars, metaVars, dataVars, writerVars>>

ParseNext == BloscParse \/ BloscPythonParse \/ NpygzParse

\* ------------------------------------------------------------------------
\* Properties of the decoders
\* ------------------------------------------------------------------------

\* parse() ran and reached the size check: the request was validated, the
\* resource built and the bit depth found
ReachedSizeCheck ==
    /\ parser # "none"
    /\ env.request = "ok"
    /\ env.resource = "ok"
    /\ env.bit_depth # 0

\* the uncompressed bytes of the request: xSpan*ySpan*zSpan*tSpan*bitDepth/8
ByteVolume ==
    (env.req.x_span * env.req.y_span * env.req.z_span
     * (env.req.t_stop - env.req.t_start) * env.bit_depth) \div 8

\* the ceiling that applies to the bit depth of the request
ApplicableCeiling ==
    IF env.bit_depth = 64 THEN 4 * CUTOUT_MAX_SIZE ELSE CUTOUT_MAX_SIZE

\* parse() returned the error with this code
Failed(error_code) == parsed.kind = "error" /\ parsed.error_code = error_code

\* C6 as stated: in each decoder every return of parse() that yields an
\* error happens only after the input stream has been read (a failure of
\* the read itself being swallowed).
C6_ErrorsDrainTheStream ==
    parsed.kind = "error" => stream # "unread"

\* C7 as stated: in each decoder, when the uncompressed bytes of the request
\* exceed the configured ceiling, parse() returns RequestTooLarge and the
\* decompression step is never invoked.
C7_OverCeilingRejected ==
    (ReachedSizeCheck /\ ByteVolume > CUTOUT_MAX_SIZE) =>
        (Failed("REQUEST_TOO_LARGE") /\ ~decompressed)

\* C7 amended: in each decoder, when the uncompressed bytes of the request
\* exceed the ceiling that applies to its bit depth (CUTOUT_MAX_SIZE, and 4
\* times CUTOUT_MAX_SIZE for bit depth 64), parse() returns RequestTooLarge
\* and the decompression step is never invoked, whatever the payload is.
C7_OverApplicableCeilingRejected ==
    (ReachedSizeCheck /\ ByteVolume > ApplicableCeiling) =>
        (Failed("REQUEST_TOO_LARGE") /\ ~decompressed)

\* C7 witness: a corrupt payload over the ceiling is refused as too large
\* by a decoder that never decompressed it
C7_Witness ==
    /\ ReachedSizeCheck
    /\ ByteVolume > ApplicableCeiling
    /\ env.decompress = "error"
    /\ Failed("REQUEST_TOO_LARGE")
    /\ ~decompressed

\* C8: is_too_large is true exactly when the uncompressed bytes strictly
\* exceed CUTOUT_MAX_SIZE for a bit depth other than 64 and 4 times
\* CUTOUT_MAX_SIZE for bit depth 64, and parse() refuses exactly those
\* requests as too large: a request at the limit is accepted.
C8_StrictCeiling ==
    ReachedSizeCheck =>
        /\ is_too_large(env.req, env.bit_depth) <=>
              (IF env.bit_depth = 64
               THEN ByteVolume > 4 * CUTOUT_MAX_SIZE
               ELSE ByteVolume > CUTOUT_MAX_SIZE)
        /\ Failed("REQUEST_TOO_LARGE") <=>
              (IF env.bit_depth = 64
               THEN ByteVolume > 4 * CUTOUT_MAX_SIZE
               ELSE ByteVolume > CUTOUT_MAX_SIZE)

\* C8 witness: a request of bit depth 64 of exactly 4 times the ceiling is
\* accepted and decoded
C8_Witness ==
    /\ ReachedSizeCheck
    /\ env.bit_depth = 64
    /\ ByteVolume = 4 * CUTOUT_MAX_SIZE
    /\ ByteVolume > CUTOUT_MAX_SIZE
    /\ decompressed
    /\ ~Failed("REQUEST_TOO_LARGE")

\* C9: on success BloscParser returns an array of shape (tSpan, zSpan,
\* ySpan, xSpan) when the request gave a time range, also one of a single
\* sample, and of shape (zSpan, ySpan, xSpan) when it gave none.
C9_RankFollowsTimeRequest ==
    (parser = "BloscParser" /\ parsed.kind = "array") =>
        IF env.req.time_request
        THEN /\ Len(parsed.shape) = 4
             /\ parsed.shape[1] = env.req.t_stop - env.req.t_start
             /\ parsed.shape[2] = env.req.z_span
             /\ parsed.shape[3] = env.req.y_span
             /\ parsed.shape[4] = env.req.x_span
        ELSE /\ Len(parsed.shape) = 3
             /\ parsed.shape[1] = env.req.z_span
             /\ parsed.shape[2] = env.req.y_span
             /\ parsed.shape[3] = env.req.x_span

\* C9 witness: a request for the single time sample [0, 1) decodes to an
\* array of rank 4
C9_Witness ==
    /\ parser = "BloscParser"
    /\ parsed.kind = "array"
    /\ env.req.time_request
    /\ env.req.t_stop - env.req.t_start = 1
    /\ Len(parsed.shape) = 4

\* BloscParser decompressed the payload into a flat array of whole elements
HasFlatBuffer ==
    /\ parser = "BloscParser"
    /\ decompressed
    /\ env.decompress = "ok"
    /\ env.raw_len % (env.bit_depth \div 8) = 0

\* the number of elements of that flat array
FlatSize == env.raw_len \div (env.bit_depth \div 8)

\* the number of elements the request declares
DeclaredSize ==
    env.req.x_span * env.req.y_span * env.req.z_span
    * (IF env.req.time_request THEN env.req.t_stop - env.req.t_start ELSE 1)

\* C10: in BloscParser, whenever the number of elements of the decompressed
\* flat buffer differs from the product of the target dimensions, parse()
\* returns ShapeMismatch (DATA_DIMENSION_MISMATCH) and no array.
C10_SizeMismatchRejected ==
    (HasFlatBuffer /\ FlatSize # DeclaredSize) =>
        (Failed("DATA_DIMENSION_MISMATCH") /\ parsed.kind # "array")

\* C10 witness: a flat buffer longer than the request declares is refused
C10_Witness ==
    /\ HasFlatBuffer
    /\ FlatSize > DeclaredSize
    /\ Failed("DATA_DIMENSION_MISMATCH")

\* the shape the request declares: (tSpan, zSpan, ySpan, xSpan) when it gave
\* a time range, (zSpan, ySpan, xSpan) when it gave none
DeclaredShape ==
    IF env.req.time_request
    THEN <<env.req.t_stop - env.req.t_start, env.req.z_span,
           env.req.y_span, env.req.x_span>>
    ELSE <<env.req.z_span, env.req.y_span, env.req.x_span>>

\* C11 as stated: the two self describing decoders reject an array whose
\* embedded shape disagrees with the request as BloscParser does, so that
\* every array a decoder returns has the shape the request declares.
C11_ReturnedArrayHasDeclaredShape ==
    parsed.kind = "array" => parsed.shape = DeclaredShape

\* C12 as stated: in each decoder a failure of the decompression step other
\* than running out of memory makes parse() return PayloadCorrupt
\* (DATATYPE_DOES_NOT_MATCH).
C12_DecompressionFailureIsPayloadCorrupt ==
    (decompressed /\ env.decompress \notin {"ok", "MemoryError"}) =>
        Failed("DATATYPE_DOES_NOT_MATCH")

\* C13 as stated: no call of parse() ends by an exception leaving it; every
\* failure ends in a returned error.
C13_NoEscapingException ==
    parsed.kind # "raised"

\* C19: in each decoder, when the construction of the validated request
\* fails, parse() returns an error carrying the message and the error code
\* of the validation failure, and runs no decompression step, whatever the
\* data type of the channel and the payload are.
C19_ValidationFailureReportedFirst ==
    (parser # "none" /\ env.request = "BossError") =>
        /\ parsed = BossParserError(env.err.message, env.err.error_code)
        /\ ~decompressed

\* C19 witness: a refused request for a channel of unsupported data type
\* with a corrupt payload returns the validation failure
C19_Witness ==
    /\ parser # "none"
    /\ env.request = "BossError"
    /\ env.bit_depth = 0
    /\ env.decompress = "error"
    /\ parsed.kind = "error"
    /\ parsed.error_code = env.err.error_code
    /\ ~decompressed

\* ------------------------------------------------------------------------
\* bosscore/metadb.py
\* ------------------------------------------------------------------------

\* the meta data keys
MetaKeys == {"k1", "k2"}

\* the meta data values
MetaValues == {"v1", "v2", "v3"}

\* no item under a key
NoValue == "NoValue"

\* the item stored under a key
Item(key, value) == [metakey |-> key, metavalue |-> value]

\* a response of DynamoDB that carries attributes
WithAttributes(attributes) == [kind |-> "response", Attributes |-> attributes]

\* a response of DynamoDB that carries no attributes
Empty == [kind |-> "response"]

\* writemeta that keeps the item a key already has
writemeta_if_absent(tbl, key, value) ==
    IF tbl[key] = NoValue THEN [tbl EXCEPT ![key] = value] ELSE tbl

\* MetaDB.writemeta: put_item creates the item or replaces it
writemeta(tbl, key, value) == [tbl EXCEPT ![key] = value]

\* MetaDB.getmeta: the item of the response, or None
getmeta(tbl, key) ==
    IF tbl[key] # NoValue THEN Item(key, tbl[key]) ELSE [kind |-> "None"]

\* MetaDB.deletemeta: delete_item with ReturnValues='ALL_OLD' removes the
\* item and returns the item as it was
deletemeta(tbl, key) ==
    [table |-> [tbl EXCEPT ![key] = NoValue],
     response |-> IF tbl[key] # NoValue
                  THEN WithAttributes(Item(key, tbl[key]))
                  ELSE Empty]

\* MetaDB.updatemeta: update_item with SET and ReturnValues='UPDATED_NEW'
\* creates the item when the key has none and returns the attributes it
\* set, as they are after the update
updatemeta(tbl, key, newvalue) ==
    [table |-> [tbl EXCEPT ![key] = newvalue],
     response |-> WithAttributes([metavalue |-> newvalue])]

NoMetaCall == [op |-> "none", key |-> "", value |-> "", before |-> [k \in MetaKeys |-> NoValue]]

MetaInit ==
    /\ table = [k \in MetaKeys |-> NoValue]
    /\ mcall = NoMetaCall
    /\ mresult = [kind |-> "none"]
    /\ last = [k \in MetaKeys |-> NoValue]

Writemeta ==
    \E key \in MetaKeys, value \in MetaValues :
        /\ table' = writemeta(table, key, value)
        /\ mcall' = [op |-> "writemeta", key |-> key, value |-> value, before |-> table]
        /\ mresult' = [kind |-> "None"]
        /\ last' = [last EXCEPT ![key] = value]
        /\ UNCHANGED <<lookupVars, parseVars, dataVars, writerVars>>

Getmeta ==
    \E key \in MetaKeys :
        /\ mcall' = [op |-> "getmeta", key |-> key, value |-> "", before |-> table]
        /\ mresult' = getmeta(table, key)
        /\ UNCHANGED <<table, last, lookupVars, parseVars, dataVars, writerVars>>

Deletemeta ==
    \E key \in MetaKeys :
        /\ table' = deletemeta(table, key).table
        /\ mcall' = [op |-> "deletemeta", key |-> key, value |-> "", before |-> table]
        /\ mresult' = deletemeta(table, key).response
        /\ last' = [last EXCEPT ![key] = NoValue]
        /\ UNCHANGED <<lookupVars, parseVars, dataVars, writerVars>>

Updatemeta ==
    \E key \in MetaKeys, newvalue \in MetaValues :
        /\ table' = updatemeta(table, key, newvalue).table
        /\ mcall' = [op |-> "updatemeta", key |-> key, value |-> newvalue, before |-> table]
        /\ mresult' = updatemeta(table, key, newvalue).response
        /\ last' = [last EXCEPT ![key] = newvalue]
        /\ UNCHANGED <<lookupVars, parseVars, dataVars, writerVars>>

MetaNext == Writemeta \/ Getmeta \/ Deletemeta \/ Updatemeta

\* ------------------------------------------------------------------------
\* Properties of the meta data store
\* ------------------------------------------------------------------------

\* C15 as stated: updatemeta(key, newValue) returns the previous value
\* stored under key when the key exists, and reports NotFound without
\* creating an item when it does not.
C15_UpdateReturnsPrevious ==
    mcall.op = "updatemeta" =>
        IF mcall.before[mcall.key] # NoValue
        THEN /\ mresult.kind = "response"
             /\ mresult.Attributes.metavalue = mcall.before[mcall.key]
        ELSE /\ mresult.kind = "NotFound"
             /\ table = mcall.before

CollectionNames == {"col1", "col2", "col3"}

ExperimentNames == {"exp1", "exp2"}

ChannelNames == {"channel1", "channel2"}

\* a row of the lookup table
Row(lookup_key, boss_key, collection_name, experiment_name, channel_name) ==
    [lookup_key |-> lookup_key, boss_key |-> boss_key,
     collection_name |-> collection_name, experiment_name |-> experiment_name,
     channel_layer_name |-> channel_name]

\* the row add_collection creates for the collection of pk c
CollectionRow(cols, c) == Row(ToString(c), cols[c], cols[c], NoneStr, NoneStr)

\* the row add_experiment creates for the experiment of pk e
ExperimentRow(cols, exps, e) ==
    LET c == exps[e].collection
    IN  Row(ToString(c) \o "&" \o ToString(e),
            cols[c] \o "&" \o exps[e].name,
            cols[c], exps[e].name, NoneStr)

\* the row add_channel creates for the channel of pk h
ChannelRow(cols, exps, chans, h) ==
    LET e == chans[h].experiment
        c == exps[e].collection
    IN  Row(ToString(c) \o "&" \o ToString(e) \o "&" \o ToString(h),
            cols[c] \o "&" \o exps[e].name \o "&" \o chans[h].name,
            cols[c], exps[e].name, chans[h].name)

\* the rows of every collection, experiment and channel under their names
CurrentRows(cols, exps, chans) ==
    {CollectionRow(cols, c) : c \in DOMAIN cols}
    \cup {ExperimentRow(cols, exps, e) : e \in DOMAIN exps}
    \cup {ChannelRow(cols, exps, chans, h) : h \in DOMAIN chans}

\* ChannelDetail.validate_source_related_channels: every source channel is
\* a channel of the experiment
validate_source_related_channels(chans, e, source_channels) ==
    \A i \in DOMAIN source_channels :
        \E h \in DOMAIN chans :
            chans[h].experiment = e /\ chans[h].name = source_channels[i]

\* what add_channel leaves: the channels, the lookup table, and what it
\* returned or raised
Left(chans, tbl, ret) == [channels |-> chans, store |-> tbl, ret |-> ret]

\* add_channel from the lookup of the collection on
add_channel_body(cols, exps, chans, tbl, collection_name, experiment_name, channel_name, channel_type, source_channels) ==
    LET cs == {c \in DOMAIN cols : cols[c] = collection_name}
        col == CHOOSE c \in cs : TRUE
        es == {e \in DOMAIN exps :
                 exps[e].name = experiment_name /\ exps[e].collection = col}
        exp == CHOOSE e \in es : TRUE
        created == Append(chans, [name |-> channel_name, experiment |-> exp,
                                  type |-> channel_type, sources |-> <<>>])
        channel == Len(created)
        linked == [created EXCEPT ![channel].sources = source_channels]
    IN  IF cs = {} THEN Left(chans, tbl, Raised("Collection.DoesNotExist"))
        ELSE IF es = {} THEN Left(chans, tbl, Raised("Experiment.DoesNotExist"))
        ELSE IF ~validate_source_related_channels(created, exp, source_channels)
             THEN Left(created, tbl, Raised("BossError"))
        ELSE Left(linked,
                  tbl (+) SetToBag({ChannelRow(cols, exps, linked, channel)}),
                  [kind |-> "channel", pk |-> channel])

\* add_channel checking the source channels of an annotation channel after
\* the channel is created
add_channel_late_check(cols, exps, chans, tbl, collection_name, experiment_name, channel_name, channel_type, source_channels) ==
    LET type == IF channel_type = NoneStr THEN "image" ELSE channel_type
        left == add_channel_body(cols, exps, chans, tbl, collection_name,
                    experiment_name, channel_name, type, source_channels)
    IN  IF type = "annotation" /\ Len(source_channels) = 0
        THEN Left(left.channels, left.store,
                  Raised("Annotation channel must have source channel."))
        ELSE left

\* SetupTestDB.add_channel
add_channel(cols, exps, chans, tbl, collection_name, experiment_name, channel_name, channel_type, source_channels) ==
    IF channel_type = NoneStr
    THEN add_channel_body(cols, exps, chans, tbl, collection_name,
             experiment_name, channel_name, "image", source_channels)
    ELSE IF channel_type = "annotation" /\ Len(source_channels) = 0
    THEN Left(chans, tbl, Raised("Annotation channel must have source channel."))
    ELSE add_channel_body(cols, exps, chans, tbl, collection_name,
             experiment_name, channel_name, channel_type, source_channels)

\* the data model renamed: the collection, experiment or channel of pk k
\* gets the name new_name
renamed(cols, exps, chans, level, k, new_name) ==
    [collections |-> IF level = "collection"
                     THEN [cols EXCEPT ![k] = new_name] ELSE cols,
     experiments |-> IF level = "experiment"
                     THEN [exps EXCEPT ![k].name = new_name] ELSE exps,
     channels |-> IF level = "channel"
                  THEN [chans EXCEPT ![k].name = new_name] ELSE chans]

\* no two resources of one parent have the same name
unique_names(m) ==
    LET rows == CurrentRows(m.collections, m.experiments, m.channels)
    IN  Cardinality({r.boss_key : r \in rows}) = Cardinality(rows)

\* the rows a rename adds: one for each path that has a new boss key
rename_rows(tbl, m) ==
    {r \in CurrentRows(m.collections, m.experiments, m.channels) :
        \A old \in BagToSet(tbl) :
            old.lookup_key = r.lookup_key => old.boss_key # r.boss_key}

\* the lookup table after a rename: the rows of the new paths are added
\* and no row is deleted or rewritten
rename_keeping_rows(tbl, m) == tbl (+) SetToBag(rename_rows(tbl, m))

\* a rename that rewrites the lookup keys of the renamed paths
rename_rekeying(tbl, m) ==
    tbl (+) SetToBag({[r EXCEPT !.lookup_key = r.lookup_key \o "&0"] :
                         r \in rename_rows(tbl, m)})

\* the lookup table after a rename
rename(tbl, m) == rename_keeping_rows(tbl, m)

NoDataCall ==
    [op |-> "none", level |-> "", pk |-> 0, collection_name |-> "",
     experiment_name |-> "", channel_name |-> "", channel_type |-> "",
     source_channels |-> <<>>, collections |-> <<>>, experiments |-> <<>>,
     channels |-> <<>>, store |-> EmptyBag]

\* the data model after insert_lookup_test_data, without its annotation
\* channels: col1 and col2, an experiment exp1 in each, channel1 in col1's
DataInit ==
    /\ collections = <<"col1", "col2">>
    /\ experiments = <<[name |-> "exp1", collection |-> 1],
                       [name |-> "exp1", collection |-> 2]>>
    /\ channels = <<[name |-> "channel1", experiment |-> 1,
                     type |-> "image", sources |-> <<>>]>>
    /\ dcall = NoDataCall
    /\ dresult = [kind |-> "none"]

\* the lookup table after insert_lookup_test_data
DataStore ==
    SetToBag(CurrentRows(<<"col1", "col2">>,
                         <<[name |-> "exp1", collection |-> 1],
                           [name |-> "exp1", collection |-> 2]>>,
                         <<[name |-> "channel1", experiment |-> 1,
                            type |-> "image", sources |-> <<>>]>>))

\* a test adds a channel whose name its experiment does not use yet
AddChannel ==
    \E collection_name \in CollectionNames, experiment_name \in ExperimentNames,
       channel_name \in ChannelNames,
       channel_type \in {NoneStr, "image", "annotation"},
       source_channels \in {<<>>, <<"channel1">>} :
        LET left == add_channel(collections, experiments, channels, store,
                        collection_name, experiment_name, channel_name,
                        channel_type, source_channels)
        IN  /\ Len(channels) < MaxChannels
            /\ \A h \in DOMAIN channels :
                  ~(/\ channels[h].name = channel_name
                    /\ experiments[channels[h].experiment].name = experiment_name
                    /\ collections[experiments[channels[h].experiment].collection]
                          = collection_name)
            /\ channels' = left.channels
            /\ store' = left.store
            /\ dresult' = left.ret
            /\ dcall' = [NoDataCall EXCEPT
                            !.op = "add_channel",
                            !.collection_name = collection_name,
                            !.experiment_name = experiment_name,
                            !.channel_name = channel_name,
                            !.channel_type = channel_type,
                            !.source_channels = source_channels,
                            !.channels = channels, !.store = store]
            /\ UNCHANGED <<collections, experiments, call, result, pinned>>
            /\ UNCHANGED <<parseVars, metaVars, writerVars>>

\* a collection, an experiment or a channel is renamed to a name that its
\* parent does not use; the store refuses a boss key that already has a row
Rename ==
    \E level \in {"collection", "experiment", "channel"},
       k \in 1..MaxChannels,
       new_name \in CollectionNames \cup ExperimentNames \cup ChannelNames :
        LET m == renamed(collections, experiments, channels, level, k, new_name)
        IN  /\ level = "collection" =>
                  k \in DOMAIN collections /\ new_name \in CollectionNames
                  /\ new_name # collections[k]
            /\ level = "experiment" =>
                  k \in DOMAIN experiments /\ new_name \in ExperimentNames
                  /\ new_name # experiments[k].name
            /\ level = "channel" =>
                  k \in DOMAIN channels /\ new_name \in ChannelNames
                  /\ new_name # channels[k].name
            /\ unique_names(m)
            /\ \A r \in rename_rows(store, m) : CountOf(store, r.boss_key) = 0
            /\ BagCardinality(rename(store, m)) <= MaxDataRows
            /\ collections' = m.collections
            /\ experiments' = m.experiments
            /\ channels' = m.channels
            /\ store' = rename(store, m)
            /\ dresult' = [kind |-> "None"]
            /\ dcall' = [NoDataCall EXCEPT
                            !.op = "rename", !.level = level, !.pk = k,
                            !.collections = collections,
                            !.experiments = experiments,
                            !.channels = channels, !.store = store]
            /\ UNCHANGED <<call, result, pinned>>
            /\ UNCHANGED <<parseVars, metaVars, writerVars>>

DataNext == AddChannel \/ Rename

\* ------------------------------------------------------------------------
\* Properties of the data model
\* ------------------------------------------------------------------------

\* C17: creating an annotation channel with an empty list of source
\* channels fails with the exception 'Annotation channel must have source
\* channel.', and no channel and no lookup row is created.
C17_AnnotationNeedsSource ==
    (/\ dcall.op = "add_channel"
     /\ dcall.channel_type = "annotation"
     /\ dcall.source_channels = <<>>) =>
        /\ dresult.kind = "raised"
        /\ dresult.exc = "Annotation channel must have source channel."
        /\ channels = dcall.channels
        /\ store = dcall.store

\* C17 witness: the annotation channel without sources is refused in an
\* experiment that exists
C17_Witness ==
    /\ dcall.op = "add_channel"
    /\ dcall.channel_type = "annotation"
    /\ dcall.source_channels = <<>>
    /\ dcall.collection_name = "col1"
    /\ dcall.experiment_name = "exp1"
    /\ collections[1] = "col1"
    /\ experiments[1].name = "exp1"
    /\ dresult.kind = "raised"

\* the paths whose boss key the last rename changed
RenamedRows ==
    CurrentRows(collections, experiments, channels)
    \ CurrentRows(dcall.collections, dcall.experiments, dcall.channels)

\* the path of this lookup key had a row before the last rename
HadLookupKey(lkey) ==
    \E old \in BagToSet(dcall.store) : old.lookup_key = lkey

Writers == {1, 2}

\* the boss key the callers target
WriterBossKeys == {"col1&exp1&channel1"}

\* lookup_data of the base row
base_lookup_data(lookup_key, boss_key, collection_name, experiment_name, channel_layer_name) ==
    [lookup_key |-> lookup_key, boss_key |-> boss_key,
     collection_name |-> collection_name,
     experiment_name |-> experiment_name,
     channel_layer_name |-> channel_layer_name]

\* time_lookup_data with the time sample left off the boss key
time_lookup_data_same_boss_key(lookup_data, lookup_key, boss_key, time) ==
    [lookup_data EXCEPT !.lookup_key = lookup_key \o "&" \o ToString(time),
                        !.boss_key = boss_key]

\* lookup_data of the row of a time sample
time_lookup_data(lookup_data, lookup_key, boss_key, time) ==
    [lookup_data EXCEPT !.lookup_key = lookup_key \o "&" \o ToString(time),
                        !.boss_key = boss_key \o "&" \o ToString(time)]

\* a caller outside add_lookup
Idle ==
    [pc |-> "idle", lookup_key |-> "", boss_key |-> "",
     max_time_sample |-> NoneInt,
     lookup_data |-> base_lookup_data("", "", "", NoneStr, NoneStr),
     time |-> 0, calls |-> 0, wrote |-> {}, retry |-> FALSE]

WriterInit == writers = [w \in Writers |-> Idle]

\* the position after the iteration of time sample `time`: the next
\* iteration, or the end of add_lookup
next_time(wr) ==
    IF wr.time < wr.max_time_sample
    THEN [wr EXCEPT !.pc = "validate_time", !.time = wr.time + 1]
    ELSE [wr EXCEPT !.pc = "returned"]

\* the arguments are those of the last call of this caller
repeats(wr, lookup_key, boss_key, max_time_sample) ==
    /\ wr.pc # "idle"
    /\ wr.lookup_key = lookup_key
    /\ wr.boss_key = boss_key
    /\ wr.max_time_sample = max_time_sample

\* history: the call repeats, with the same arguments, the call of this
\* caller that failed in the loop over the time samples
is_retry(wr, lookup_key, boss_key, max_time_sample) ==
    wr.pc = "failed" /\ repeats(wr, lookup_key, boss_key, max_time_sample)

\* the number of calls made so far, up to MaxCalls
calls_made(ws) == ws[1].calls + ws[2].calls

\* a caller enters add_lookup: lookup_data is built and the serializer
\* validates it
Call(w) ==
    \E lookup_key \in LookupKeys, boss_key \in WriterBossKeys,
       max_time_sample \in {NoneInt} \cup (0..MaxTime) :
        LET lookup_data == base_lookup_data(lookup_key, boss_key,
                               CollectionOf(boss_key), ExperimentOf(boss_key),
                               ChannelOf(boss_key))
        IN  /\ writers[w].pc \in {"idle", "returned", "failed"}
            /\ \/ calls_made(writers) < MaxCalls
               \/ /\ ~is_valid(store, lookup_data)
                  /\ repeats(writers[w], lookup_key, boss_key, max_time_sample)
            /\ writers' = [writers EXCEPT ![w] =
                              [pc |-> IF is_valid(store, lookup_data)
                                      THEN "save_base" ELSE "returned",
                               lookup_key |-> lookup_key,
                               boss_key |-> boss_key,
                               max_time_sample |-> max_time_sample,
                               lookup_data |-> lookup_data,
                               time |-> 0,
                               calls |-> IF calls_made(writers) < MaxCalls
                                         THEN writers[w].calls + 1
                                         ELSE writers[w].calls,
                               wrote |-> {},
                               retry |-> is_retry(writers[w], lookup_key,
                                             boss_key, max_time_sample)]]
            /\ UNCHANGED <<lookupVars, parseVars, metaVars, dataVars>>

\* the base row is saved; the time samples follow for a channel with a
\* max_time_sample
SaveBase(w) ==
    /\ writers[w].pc = "save_base"
    /\ store' = save(store, writers[w].lookup_data)
    /\ writers' = [writers EXCEPT ![w].pc =
                      IF expands(writers[w].lookup_data.collection_name,
                                 writers[w].lookup_data.experiment_name,
                                 writers[w].lookup_data.channel_layer_name,
                                 writers[w].max_time_sample)
                      THEN "validate_time" ELSE "returned"]
    /\ UNCHANGED <<call, result, pinned, parseVars, metaVars, dataVars>>

\* lookup_data gets the keys of the time sample and the serializer
\* validates it
ValidateTime(w) ==
    LET wr == writers[w]
        data == time_lookup_data(wr.lookup_data, wr.lookup_key, wr.boss_key,
                                 wr.time)
    IN  /\ wr.pc = "validate_time"
        /\ writers' = [writers EXCEPT ![w] =
                          IF is_valid(store, data)
                          THEN [wr EXCEPT !.pc = "save_time",
                                          !.lookup_data = data]
                          ELSE next_time([wr EXCEPT !.lookup_data = data])]
        /\ UNCHANGED <<lookupVars, parseVars, metaVars, dataVars>>

\* the row of the time sample is saved
SaveTime(w) ==
    LET wr == writers[w]
    IN  /\ wr.pc = "save_time"
        /\ store' = save(store, wr.lookup_data)
        /\ writers' = [writers EXCEPT ![w] =
                          next_time([wr EXCEPT !.wrote = @ \cup {wr.lookup_data}])]
        /\ UNCHANGED <<call, result, pinned, parseVars, metaVars, dataVars>>

\* the call ends inside the loop over the time samples: the database
\* fails, or the caller is stopped
Interrupt(w) ==
    /\ writers[w].pc \in {"validate_time", "save_time"}
    /\ writers' = [writers EXCEPT ![w].pc = "failed"]
    /\ UNCHANGED <<lookupVars, parseVars, metaVars, dataVars>>

WriterNext ==
    \E w \in Writers :
        \/ Call(w)
        \/ SaveBase(w)
        \/ ValidateTime(w)
        \/ SaveTime(w)
        \/ Interrupt(w)

\* ------------------------------------------------------------------------
\* Properties of the interleaved writers
\* ------------------------------------------------------------------------

\* C14: under every interleaving of two add_lookup calls that target the
\* same boss key the table holds at most one base row for that boss key,
\* so that get_lookup_key never finds more than one row.
C14_OneBaseRowPerBossKey ==
    \A bkey \in WriterBossKeys :
        /\ CountOf(store, bkey) <= 1
        /\ get_lookup_key(store, bkey).kind # "MultipleObjectsReturned"

\* the caller is in the loop over the time samples
InExpansion(w) == writers[w].pc \in {"validate_time", "save_time"}

\* the row pairs the boss key of time sample t with its lookup key
PairsTimeSample(r, wr) ==
    \E t \in 0..wr.max_time_sample :
        /\ r.boss_key = wr.boss_key \o "&" \o ToString(t)
        /\ r.lookup_key = wr.lookup_key \o "&" \o ToString(t)

\* C20: no step of the loop over the time samples, its failure included,
\* changes what get_lookup_key returns for the boss key of the call, and
\* every time row the call has saved is in the table and pairs the boss
\* key of a time sample t with the lookup key of the same t.
C20_PartialExpansionKeepsBase ==
    [][\A w \in Writers :
          (InExpansion(w) /\ writers'[w] # writers[w]) =>
              /\ get_lookup_key(store', writers[w].boss_key)
                    = get_lookup_key(store, writers[w].boss_key)
              /\ \A r \in writers'[w].wrote :
                    /\ r \in BagToSet(store')
                    /\ PairsTimeSample(r, writers'[w])]_vars

\* C20 witness: a call failed after saving some of its time rows, not all,
\* and its boss key resolves to its lookup key
C20_Witness ==
    \E w \in Writers :
        /\ writers[w].pc = "failed"
        /\ writers[w].wrote # {}
        /\ Cardinality(writers[w].wrote) < writers[w].max_time_sample + 1
        /\ Resolves(writers[w].boss_key, writers[w].lookup_key)

\* the table holds the row of every time sample of the call of w
AllTimeRows(w) ==
    \A t \in 0..writers[w].max_time_sample :
        \E r \in BagToSet(store) :
            /\ r.boss_key = writers[w].boss_key \o "&" \o ToString(t)
            /\ r.lookup_key = writers[w].lookup_key \o "&" \o ToString(t)

\* C21: when add_lookup is called again with the arguments of a call that
\* saved the base row and failed before saving every time row, the table
\* eventually holds the row of every time sample 0..N.
C21_RetryCompletesExpansion ==
    \A w \in Writers :
        (writers[w].retry /\ ~AllTimeRows(w)) ~> AllTimeRows(w)

\* ------------------------------------------------------------------------
\* Specifications
\* ------------------------------------------------------------------------

Init == LookupInit /\ ParseInit /\ MetaInit /\ DataInit /\ WriterInit

\* the key space
Next == AddLookup \/ GetLookupKey

Spec == Init /\ [][Next]_vars

\* the decoders
ParseSpec == Init /\ [][ParseNext]_vars

\* the meta data store
MetaSpec == Init /\ [][MetaNext]_vars

\* the data model of the tests, from its test data on
DataSpecInit ==
    /\ store = DataStore
    /\ call = NoCall
    /\ result = [kind |-> "none"]
    /\ pinned = {}
    /\ ParseInit
    /\ MetaInit
    /\ DataInit
    /\ WriterInit

DataSpec == DataSpecInit /\ [][DataNext]_vars

\* the key space under concurrent callers of add_lookup
WriterSpec == Init /\ [][WriterNext]_vars

\* a call that is not interrupted runs to its end, and a caller whose call
\* ended calls again
WriterFairness ==
    \A w \in Writers :
        /\ WF_vars(SaveBase(w) \/ ValidateTime(w) \/ SaveTime(w))
        /\ WF_vars(Call(w))

\* the concurrent callers, each call running on until it ends or fails, and
\* each caller calling again and again
WriterFairSpec == WriterSpec /\ WriterFairness

====
